---- MODULE Spec2Model ----
(***************************************************************************)
(* Referential-integrity model of the directory/roster manager.            *)
(*                                                                         *)
(* The record store (entities Person, Tag, Household, HouseholdMember) is  *)
(* a plain CRUD document store: update is a partial merge, nothing is      *)
(* validated and no foreign key is enforced.  The cascades that keep the   *)
(* relationships consistent are written in the page components (Tags,     *)
(* HouseholdDetail, HouseholdList, PersonForm); each of their handlers is  *)
(* modelled here one store call per step, over the page's own snapshot of  *)
(* the store (the React state filled by loadData).                         *)
(*                                                                         *)
(* The profile fields (ProfileFieldDef) are defined, edited, archived and  *)
(* reordered on the ProfileFields page; PeopleList, PersonForm and         *)
(* PersonProfile each filter ProfileFieldDef.list() on their own, and the  *)
(* person form writes Person.fields from the field list it loaded.         *)
(***************************************************************************)
EXTENDS Integers, Sequences, FiniteSets, TLC

\* ------------------------------------------------------------------ bounds
MaxPeople == 2
NumTags == 2
NumHouseholds == 2
MaxMembers == 2
MaxFields == 2
MaxNotes == 2
NumDashTags == 6
NumFieldTabs == 2

\* the dashboard shows the first 5 tags and the first 10 notes
TopTagsShown == 5
RecentNotesShown == 10

\* ---------------------------------------------------------------- domains
NoId == 0
Tags == 1..NumTags
Households == 1..NumHouseholds
Relationships == {"head", "child"}
\* what one store call can do: apply and return success = true, return
\* success = false without writing, or reject the promise (throw)
Outcomes == {"ok", "reject", "throw"}
Roles == {"owner", "admin", "member", "viewer"}
Visibilities == {"public", "staff_only"}
\* the browser tabs that show the ProfileFields page
FieldTabs == 1..NumFieldTabs
\* a field key is a string, kept as the sequence of its characters
Letters == {"a", "b"}
Digits == {"1"}
\* a form control left empty
Undefined == "undefined"
\* Person.fields of a person with no value stored
NoFields == <<>>

VARIABLES
    people,      \* Person collection: sequence, _id = index
    tags,        \* Tag collection: function _id -> record
    households,  \* Household collection: function _id -> record
    members,     \* HouseholdMember collection: sequence, _id = index
    tagsPage,    \* state of the Tags page: loaded, people (snapshot)
    tagOp,       \* the deleteTag call in flight on the Tags page
    detail,      \* state of the HouseholdDetail pages, one per household id
    memberOp,    \* the member add/edit/remove call in flight
    message,     \* the last toast shown: "none", "success", "error"
    fieldDefs,   \* ProfileFieldDef collection: sequence, _id = index
    fieldsPage,  \* fields state of the ProfileFields page, one per tab
    fieldOp,     \* the handleDragEnd call in flight on a ProfileFields page
    formFields,  \* profileFields state of the PersonForm
    listFields,  \* profileFields state of the PeopleList
    profileFields, \* profileFields state of the PersonProfile
    userRole,    \* AppContext.userRole
    notes,       \* Note collection: sequence, _id = index, in creation order
    profile,     \* person, notes and householdMembers state of the PersonProfile
    dashboard,   \* topTags and recentNotes state of the Dashboard
    householdList \* memberCount of each household on the HouseholdList page

fieldVars == <<fieldDefs, fieldsPage, fieldOp, formFields, listFields, profileFields, userRole>>

viewVars == <<notes, profile, dashboard, householdList>>

vars == <<people, tags, households, members, tagsPage, tagOp, detail, memberOp, message,
          fieldDefs, fieldsPage, fieldOp, formFields, listFields, profileFields, userRole,
          notes, profile, dashboard, householdList>>

\* ------------------------------------------------------------ record store
NewPerson(tagIds, householdId, fields) ==
    [tagIds |-> tagIds, householdId |-> householdId, fields |-> fields]

\* update is a partial merge: only the attributes of the patch change
Merge(rec, patch) ==
    [f \in DOMAIN rec \cup DOMAIN patch |->
        IF f \in DOMAIN patch THEN patch[f] ELSE rec[f]]

EntityUpdate(coll, id, patch) ==
    [coll EXCEPT ![id] = Merge(coll[id], patch)]

EntityCreate(coll, rec) == Append(coll, rec)

\* the ids of a collection kept as a sequence
Ids(coll) == 1..Len(coll)

\* a member row is active unless a remove has written archived = true on it
ActiveRows == {m \in Ids(members) : ~members[m].archived}

\* ------------------------------------------------------------- idle values
IdleTagOp == [pc |-> "idle"]
IdleMemberOp == [pc |-> "idle"]
IdleFieldOp == [pc |-> "idle"]

Quiescent == tagOp.pc = "idle" /\ memberOp.pc = "idle" /\ fieldOp.pc = "idle"

\* ------------------------------------------------------------------- Init
Init ==
    /\ people = <<NewPerson({}, NoId, NoFields)>>
    /\ tags = [t \in Tags |-> [archived |-> FALSE]]
    /\ households = [h \in Households |-> [archived |-> FALSE]]
    /\ members = <<>>
    /\ tagsPage = [loaded |-> FALSE, people |-> <<>>]
    /\ tagOp = IdleTagOp
    /\ detail = [h \in Households |-> [loaded |-> FALSE, allPeople |-> <<>>, members |-> {}]]
    /\ memberOp = IdleMemberOp
    /\ message = "none"
    /\ fieldDefs = <<>>
    /\ fieldsPage = [tab \in FieldTabs |-> <<>>]
    /\ fieldOp = IdleFieldOp
    /\ formFields = <<>>
    /\ listFields = <<>>
    /\ profileFields = <<>>
    /\ userRole = "admin"
    /\ notes = <<>>
    /\ profile = [personId |-> NoId, notes |-> <<>>, householdMembers |-> {}]
    /\ dashboard = [topTags |-> <<>>, recentNotes |-> <<>>]
    /\ householdList = [h \in Households |-> 0]

\* ============================================================== Tags page
\* Tags.loadData: Tag.list() and Person.list(), neither filtered.
TagsLoadData ==
    /\ tagsPage' = [loaded |-> TRUE, people |-> people]
    /\ UNCHANGED <<people, tags, households, members, tagOp, detail, memberOp, message>>
    /\ UNCHANGED fieldVars
    /\ UNCHANGED viewVars

\* the people of the page's snapshot that hold the tag, in list order, each
\* with the tagIds the snapshot shows
PeopleWithTag(snapshot, t) ==
    LET idx == SelectSeq([i \in 1..Len(snapshot) |-> i],
                         LAMBDA i : t \in snapshot[i].tagIds)
    IN  [k \in 1..Len(idx) |-> [id |-> idx[k], tagIds |-> snapshot[idx[k]].tagIds]]

\* deleteTag(tag), entered from the confirm dialog of handleDelete: the
\* closure filters the people of its render.  pre, fresh and failed are
\* history: the store at the start of the call, whether the page's snapshot
\* then equalled the store, and whether a store call failed.
DeleteTagStart(t) ==
    /\ tagsPage.loaded
    /\ tagOp.pc = "idle"
    /\ LET todo == PeopleWithTag(tagsPage.people, t)
       IN  tagOp' = [pc |-> IF Len(todo) = 0 THEN "archive" ELSE "cascade",
                     tag |-> t, todo |-> todo,
                     pre |-> [people |-> people, tags |-> tags],
                     fresh |-> tagsPage.people = people,
                     failed |-> FALSE]
    /\ message' = "none"
    /\ UNCHANGED <<people, tags, households, members, tagsPage, detail, memberOp>>
    /\ UNCHANGED fieldVars
    /\ UNCHANGED viewVars

\* one turn of the loop: Person.update(person._id, {tagIds: updatedTagIds});
\* the response is not looked at, a throw ends the call in the catch block
DeleteTagPersonUpdate(outcome) ==
    /\ tagOp.pc = "cascade"
    /\ LET person == Head(tagOp.todo)
           updatedTagIds == person.tagIds \ {tagOp.tag}
           rest == Tail(tagOp.todo)
       IN  /\ people' = IF outcome = "ok"
                        THEN EntityUpdate(people, person.id, [tagIds |-> updatedTagIds])
                        ELSE people
           /\ IF outcome = "throw"
              THEN /\ tagOp' = IdleTagOp
                   /\ message' = "error"
              ELSE /\ tagOp' = [tagOp EXCEPT
                                  !.pc = IF Len(rest) = 0 THEN "archive" ELSE "cascade",
                                  !.todo = rest,
                                  !.failed = tagOp.failed \/ outcome = "reject"]
                   /\ message' = message
    /\ UNCHANGED <<tags, households, members, tagsPage, detail, memberOp>>
    /\ UNCHANGED fieldVars
    /\ UNCHANGED viewVars

\* Tag.update(tag._id, {archived: true}), then message.success and loadData;
\* the response is not looked at, a throw ends the call in the catch block
DeleteTagArchive(outcome) ==
    /\ tagOp.pc = "archive"
    /\ tags' = IF outcome = "ok"
               THEN EntityUpdate(tags, tagOp.tag, [archived |-> TRUE])
               ELSE tags
    /\ IF outcome = "throw"
       THEN /\ message' = "error"
            /\ tagsPage' = tagsPage
       ELSE /\ message' = "success"
            /\ tagsPage' = [loaded |-> TRUE, people |-> people]
    /\ tagOp' = IdleTagOp
    /\ UNCHANGED <<people, households, members, detail, memberOp>>
    /\ UNCHANGED fieldVars
    /\ UNCHANGED viewVars

\* ===================================================== HouseholdDetail page
\* a join that keeps the rows of every household
MembersOfAnyHousehold(id, rows, ppl) ==
    {[_id |-> m, personId |-> rows[m].personId, relationship |-> rows[m].relationship,
      person |-> ppl[rows[m].personId]] :
        m \in {r \in Ids(rows) : rows[r].personId \in Ids(ppl)}}

\* the rows of household id joined with the person found in the people list;
\* a row whose person is not found is dropped.  HouseholdMember.list() is not
\* filtered by archived.
MembersWithPeople(id, rows, ppl) ==
    {[_id |-> m, personId |-> rows[m].personId, relationship |-> rows[m].relationship,
      person |-> ppl[rows[m].personId]] :
        m \in {r \in Ids(rows) : rows[r].householdId = id /\ rows[r].personId \in Ids(ppl)}}

\* HouseholdDetail.loadData for the page of household id
DetailSnapshot(id) ==
    [loaded |-> TRUE, allPeople |-> people, members |-> MembersWithPeople(id, members, people)]

DetailLoadData(id) ==
    /\ detail' = [detail EXCEPT ![id] = DetailSnapshot(id)]
    /\ UNCHANGED <<people, tags, households, members, tagsPage, tagOp, memberOp, message>>
    /\ UNCHANGED fieldVars
    /\ UNCHANGED viewVars

\* the row of the page's snapshot with the given _id
SnapshotMember(id, row) == CHOOSE m \in detail[id].members : m._id = row

SnapshotRows(id) == {m._id : m \in detail[id].members}

\* the options of the member modal's person select: the people of the page's
\* snapshot with no householdId, and the person of the row being edited
\* (editingMember is the row's _id, NoId when the modal adds a member)
availablePeople(id, editingMember) ==
    {p \in Ids(detail[id].allPeople) :
        \/ editingMember # NoId /\ p = SnapshotMember(id, editingMember).personId
        \/ detail[id].allPeople[p].householdId = NoId}

NewMember(householdId, personId, relationship) ==
    [householdId |-> householdId, personId |-> personId,
     relationship |-> relationship, archived |-> FALSE]

\* handleAddEditMember up to its first store call: HouseholdMember.create, or
\* HouseholdMember.update of the row being edited.  success = false is thrown
\* as an Error.  pre and failed are history, as in deleteTag.
MemberSubmit(id, editingMember, personId, relationship, outcome) ==
    /\ detail[id].loaded
    /\ memberOp.pc = "idle"
    /\ editingMember = NoId \/ editingMember \in SnapshotRows(id)
    /\ personId \in availablePeople(id, editingMember)
    /\ IF editingMember = NoId
       THEN /\ Len(members) < MaxMembers
            /\ members' = IF outcome = "ok"
                          THEN EntityCreate(members, NewMember(id, personId, relationship))
                          ELSE members
       ELSE members' = IF outcome = "ok"
                       THEN EntityUpdate(members, editingMember,
                                [personId |-> personId, relationship |-> relationship,
                                 householdId |-> id])
                       ELSE members
    /\ IF outcome = "ok"
       THEN /\ memberOp' = [pc |-> "person", kind |-> IF editingMember = NoId THEN "add" ELSE "edit",
                            id |-> id, row |-> IF editingMember = NoId THEN Len(members) + 1
                                               ELSE editingMember,
                            personId |-> personId, relationship |-> relationship,
                            pre |-> [people |-> people, members |-> members],
                            failed |-> FALSE]
            /\ message' = "none"
       ELSE /\ memberOp' = IdleMemberOp
            /\ message' = "error"
    /\ UNCHANGED <<people, tags, households, tagsPage, tagOp, detail>>
    /\ UNCHANGED fieldVars
    /\ UNCHANGED viewVars

\* handleRemoveMember up to its first store call, entered from the confirm
\* dialog: HouseholdMember.update(member._id, {archived: true}).  Neither
\* response is looked at; a throw ends the call in the catch block.
MemberRemove(id, member, outcome) ==
    /\ detail[id].loaded
    /\ memberOp.pc = "idle"
    /\ member \in detail[id].members
    /\ members' = IF outcome = "ok"
                  THEN EntityUpdate(members, member._id, [archived |-> TRUE])
                  ELSE members
    /\ IF outcome = "throw"
       THEN /\ memberOp' = IdleMemberOp
            /\ message' = "error"
       ELSE /\ memberOp' = [pc |-> "person", kind |-> "remove", id |-> id, row |-> member._id,
                            personId |-> member.personId, relationship |-> member.relationship,
                            pre |-> [people |-> people, members |-> members],
                            failed |-> outcome = "reject"]
            /\ message' = "none"
    /\ UNCHANGED <<people, tags, households, tagsPage, tagOp, detail>>
    /\ UNCHANGED fieldVars
    /\ UNCHANGED viewVars

\* the second store call of both handlers: Person.update(personId,
\* {householdId: id}) after an add or edit, Person.update(personId,
\* {householdId: null}) after a remove; then message.success and loadData.
\* The response is not looked at; a throw ends the call in the catch block.
MemberPersonUpdate(outcome) ==
    /\ memberOp.pc = "person"
    /\ people' = IF outcome = "ok"
                 THEN EntityUpdate(people, memberOp.personId,
                          [householdId |-> IF memberOp.kind = "remove" THEN NoId
                                           ELSE memberOp.id])
                 ELSE people
    /\ IF outcome = "throw"
       THEN /\ message' = "error"
            /\ detail' = detail
       ELSE /\ message' = "success"
            /\ detail' = [detail EXCEPT ![memberOp.id] =
                            [loaded |-> TRUE, allPeople |-> people',
                             members |-> MembersWithPeople(memberOp.id, members, people')]]
    /\ memberOp' = IdleMemberOp
    /\ UNCHANGED <<tags, households, members, tagsPage, tagOp>>
    /\ UNCHANGED fieldVars
    /\ UNCHANGED viewVars

\* ======================================================= HouseholdList page
\* handleDelete, entered from the confirm dialog: its one store call is
\* Household.update(household._id, {archived: true}); success = false is
\* thrown as an Error.  No member row and no person is read or written.
HouseholdDelete(id, outcome) ==
    /\ households' = IF outcome = "ok"
                     THEN EntityUpdate(households, id, [archived |-> TRUE])
                     ELSE households
    /\ message' = IF outcome = "ok" THEN "success" ELSE "error"
    /\ UNCHANGED <<people, tags, members, tagsPage, tagOp, detail, memberOp>>
    /\ UNCHANGED fieldVars
    /\ UNCHANGED viewVars

\* ===================================================== ProfileFields page
\* the key rule of the field form: /^[a-zA-Z][a-zA-Z0-9_]*$/, and required
ValidKey(key) ==
    /\ Len(key) >= 1
    /\ key[1] \in Letters
    /\ \A i \in 2..Len(key) : key[i] \in Letters \cup Digits \cup {"_"}

\* the records of a collection as list() returns them, each with its _id
WithIds(coll) == [i \in Ids(coll) |-> [_id |-> i] @@ coll[i]]

NotArchived(f) == ~f.archived

\* Array.prototype.sort((a, b) => a.orderIndex - b.orderIndex): stable
RECURSIVE InsertByOrderIndex(_, _)
InsertByOrderIndex(f, s) ==
    IF s = <<>> THEN <<f>>
    ELSE IF f.orderIndex < Head(s).orderIndex THEN <<f>> \o s
    ELSE <<Head(s)>> \o InsertByOrderIndex(f, Tail(s))

RECURSIVE SortedByOrderIndex(_)
SortedByOrderIndex(s) ==
    IF s = <<>> THEN <<>>
    ELSE InsertByOrderIndex(s[Len(s)], SortedByOrderIndex(SubSeq(s, 1, Len(s) - 1)))

\* ProfileFields.loadData: the non-archived fields sorted by orderIndex
SortedFields(defs) == SortedByOrderIndex(SelectSeq(WithIds(defs), NotArchived))

FieldsLoadData(tab) ==
    /\ fieldsPage' = [fieldsPage EXCEPT ![tab] = SortedFields(fieldDefs)]
    /\ UNCHANGED <<people, tags, households, members, tagsPage, tagOp, detail, memberOp, message>>
    /\ UNCHANGED <<fieldDefs, fieldOp, formFields, listFields, profileFields, userRole>>
    /\ UNCHANGED viewVars

\* ProfileFields.isReadOnly: disables Add Field, Edit and Archive
isReadOnly == userRole = "viewer" \/ userRole = "member"

\* the positions of the page's fields state
PageRows(tab) == 1..Len(fieldsPage[tab])

\* ProfileFields.handleCreateEdit.  editingField is a position of the
\* page's fields state, 0 for "Add Field"; values are the form values.
FieldData(tab, editingField, values) ==
    [key |-> values.key,
     type |-> values.type,
     options |-> values.options,
     visibility |-> values.visibility,
     archived |-> FALSE,
     orderIndex |-> IF editingField # 0
                    THEN fieldsPage[tab][editingField].orderIndex
                    ELSE Len(fieldsPage[tab])]

FieldCreateEdit(tab, editingField, values, outcome) ==
    /\ ~isReadOnly
    /\ ValidKey(values.key)
    /\ IF editingField # 0
       THEN /\ editingField \in PageRows(tab)
            /\ fieldDefs' = IF outcome = "ok"
                            THEN EntityUpdate(fieldDefs, fieldsPage[tab][editingField]._id,
                                              FieldData(tab, editingField, values))
                            ELSE fieldDefs
       ELSE /\ Len(fieldDefs) < MaxFields
            /\ fieldDefs' = IF outcome = "ok"
                            THEN EntityCreate(fieldDefs, FieldData(tab, editingField, values))
                            ELSE fieldDefs
    /\ message' = IF outcome = "ok" THEN "success" ELSE "error"
    /\ fieldsPage' = IF outcome = "ok"
                     THEN [fieldsPage EXCEPT ![tab] = SortedFields(fieldDefs')]
                     ELSE fieldsPage
    /\ UNCHANGED <<people, tags, households, members, tagsPage, tagOp, detail, memberOp>>
    /\ UNCHANGED <<fieldOp, formFields, listFields, profileFields, userRole>>
    /\ UNCHANGED viewVars

\* ProfileFields.handleDelete (Archive): the response is not inspected
FieldDelete(tab, field, outcome) ==
    /\ ~isReadOnly
    /\ field \in PageRows(tab)
    /\ fieldDefs' = IF outcome = "ok"
                    THEN EntityUpdate(fieldDefs, fieldsPage[tab][field]._id, [archived |-> TRUE])
                    ELSE fieldDefs
    /\ message' = IF outcome = "throw" THEN "error" ELSE "success"
    /\ fieldsPage' = IF outcome = "throw"
                     THEN fieldsPage
                     ELSE [fieldsPage EXCEPT ![tab] = SortedFields(fieldDefs')]
    /\ UNCHANGED <<people, tags, households, members, tagsPage, tagOp, detail, memberOp>>
    /\ UNCHANGED <<fieldOp, formFields, listFields, profileFields, userRole>>
    /\ UNCHANGED viewVars

\* arrayMove of @dnd-kit/sortable: take the element out, put it in at `to`
arrayMove(s, from, to) ==
    LET rest == SubSeq(s, 1, from - 1) \o SubSeq(s, from + 1, Len(s))
    IN  SubSeq(rest, 1, to - 1) \o <<s[from]>> \o SubSeq(rest, to, Len(rest))

\* ProfileFields.handleDragEnd up to its first store call: the page shows
\* the new order at once; `pre` is the collection as the drag began
FieldDragStart(tab, oldIndex, newIndex) ==
    /\ fieldOp.pc = "idle"
    /\ oldIndex \in PageRows(tab) /\ newIndex \in PageRows(tab)
    /\ oldIndex # newIndex
    /\ LET newFields == arrayMove(fieldsPage[tab], oldIndex, newIndex)
       IN  /\ fieldsPage' = [fieldsPage EXCEPT ![tab] = newFields]
           /\ fieldOp' = [pc |-> "reorder", tab |-> tab, i |-> 1,
                          newFields |-> [j \in 1..Len(newFields) |-> newFields[j]._id],
                          pre |-> fieldDefs, failed |-> FALSE]
    /\ message' = "none"
    /\ UNCHANGED <<people, tags, households, members, tagsPage, tagOp, detail, memberOp>>
    /\ UNCHANGED <<fieldDefs, formFields, listFields, profileFields, userRole>>
    /\ UNCHANGED viewVars

\* one turn of the loop of handleDragEnd: ProfileFieldDef.update(
\* newFields[i]._id, {orderIndex: i}), response not inspected; a rejected
\* promise ends the loop with the error toast and a loadData
FieldDragUpdate(outcome) ==
    /\ fieldOp.pc = "reorder"
    /\ fieldDefs' = IF outcome = "ok"
                    THEN EntityUpdate(fieldDefs, fieldOp.newFields[fieldOp.i],
                                      [orderIndex |-> fieldOp.i - 1])
                    ELSE fieldDefs
    /\ IF outcome = "throw"
       THEN /\ message' = "error"
            /\ fieldsPage' = [fieldsPage EXCEPT ![fieldOp.tab] = SortedFields(fieldDefs)]
            /\ fieldOp' = IdleFieldOp
       ELSE /\ fieldsPage' = fieldsPage
            /\ IF fieldOp.i = Len(fieldOp.newFields)
               THEN /\ message' = "success"
                    /\ fieldOp' = IdleFieldOp
               ELSE /\ message' = message
                    /\ fieldOp' = [fieldOp EXCEPT !.i = @ + 1,
                                                  !.failed = @ \/ outcome = "reject"]
    /\ UNCHANGED <<people, tags, households, members, tagsPage, tagOp, detail, memberOp>>
    /\ UNCHANGED <<formFields, listFields, profileFields, userRole>>
    /\ UNCHANGED viewVars

\* ============================================================ Person form
\* a field value: a string, a number or a boolean (or a control left empty)
Val(t, s) == [t |-> t, s |-> s]
StringValues == {"M", "XL"}
FieldValues ==
    {Val("string", s) : s \in StringValues}
        \cup {Val("number", "7")} \cup {Val("boolean", b) : b \in {"true", "false"}}
NoValue == Val("undefined", Undefined)

\* the filter of PersonForm.loadData and PersonProfile.loadData
VisibleTo(role, f) ==
    ~f.archived /\ (f.visibility = "public" \/ role # "viewer")

\* PersonForm.loadData: ProfileFieldDef.list() filtered, in list order
PersonFormLoadData ==
    /\ formFields' = SelectSeq(WithIds(fieldDefs), LAMBDA f : VisibleTo(userRole, f))
    /\ UNCHANGED <<people, tags, households, members, tagsPage, tagOp, detail, memberOp, message>>
    /\ UNCHANGED <<fieldDefs, fieldsPage, fieldOp, listFields, profileFields, userRole>>
    /\ UNCHANGED viewVars

\* PersonForm.renderDynamicField: what the control of a field can hold
WidgetValues(field) ==
    CASE field.type = "select" -> {Val("string", o) : o \in field.options}
      [] field.type = "number" -> {Val("number", "7")}
      [] field.type = "checkbox" -> {Val("boolean", b) : b \in {"true", "false"}}
      [] OTHER -> {Val("string", s) : s \in StringValues}

FormKeys == {formFields[i].key : i \in 1..Len(formFields)}

\* the values the form can be submitted with: one per key of the
\* profileFields state, each from a control of that key or left empty
FormInputs ==
    {values \in [FormKeys -> FieldValues \cup {NoValue}] :
        \A k \in FormKeys :
            \/ values[k] = NoValue
            \/ \E i \in 1..Len(formFields) :
                 formFields[i].key = k /\ values[k] \in WidgetValues(formFields[i])}

\* an attribute whose value is undefined is not part of the request body
Sent(dynamicFields) ==
    [k \in {j \in DOMAIN dynamicFields : dynamicFields[j] # NoValue} |-> dynamicFields[k]]

\* PersonForm.handleSubmit.  The tag select offers every tag of Tag.list()
\* and the household select every household of Household.list(), neither
\* filtered by archived.  A cleared select leaves its value undefined, an
\* attribute the partial merge does not touch.  fields is always sent: one
\* entry per key of the form's profileFields state.
PersonPatch(tagIds, householdId, dynamicFields) ==
    IF householdId = NoId
    THEN [tagIds |-> tagIds, fields |-> Sent(dynamicFields)]
    ELSE [tagIds |-> tagIds, householdId |-> householdId, fields |-> Sent(dynamicFields)]

PersonFormSubmit(isEdit, id, tagIds, householdId, values, outcome) ==
    /\ values \in FormInputs
    /\ IF isEdit
       THEN /\ id \in Ids(people)
            /\ people' = IF outcome = "ok"
                         THEN EntityUpdate(people, id, PersonPatch(tagIds, householdId, values))
                         ELSE people
       ELSE /\ Len(people) < MaxPeople
            /\ people' = IF outcome = "ok"
                         THEN EntityCreate(people, NewPerson(tagIds, householdId, Sent(values)))
                         ELSE people
    /\ message' = IF outcome = "ok" THEN "success" ELSE "error"
    /\ UNCHANGED <<tags, households, members, tagsPage, tagOp, detail, memberOp>>
    /\ UNCHANGED fieldVars
    /\ UNCHANGED viewVars

\* ================================================ PeopleList, PersonProfile
\* PeopleList.loadData: the non-archived fields, in list order
PeopleListLoadData ==
    /\ listFields' = SelectSeq(WithIds(fieldDefs), NotArchived)
    /\ UNCHANGED <<people, tags, households, members, tagsPage, tagOp, detail, memberOp, message>>
    /\ UNCHANGED <<fieldDefs, fieldsPage, fieldOp, formFields, profileFields, userRole>>
    /\ UNCHANGED viewVars

\* Array.prototype.sort by createdAt, newest first: stable
RECURSIVE InsertByCreatedAtDesc(_, _)
InsertByCreatedAtDesc(n, s) ==
    IF s = <<>> THEN <<n>>
    ELSE IF n.createdAt > Head(s).createdAt THEN <<n>> \o s
    ELSE <<Head(s)>> \o InsertByCreatedAtDesc(n, Tail(s))

RECURSIVE SortedByCreatedAtDesc(_)
SortedByCreatedAtDesc(s) ==
    IF s = <<>> THEN <<>>
    ELSE InsertByCreatedAtDesc(s[Len(s)], SortedByCreatedAtDesc(SubSeq(s, 1, Len(s) - 1)))

\* PersonProfile.loadData: the notes of the person, newest first
PersonNotes(id) ==
    SortedByCreatedAtDesc(SelectSeq(WithIds(notes), LAMBDA note : note.personId = id))

\* PersonProfile.loadData: the rows of the person's household, each with
\* the person Person.get(member.personId) returns; a row whose person is
\* not returned is dropped
ProfileHouseholdMembers(householdId) ==
    {[_id |-> m, personId |-> members[m].personId, relationship |-> members[m].relationship,
      person |-> people[members[m].personId]] :
        m \in {r \in Ids(members) :
                 members[r].householdId = householdId /\ members[r].personId \in Ids(people)}}

\* PersonProfile.loadData for the profile of person id; householdMembers is
\* set only when the person has a householdId
PersonProfileLoadData(id) ==
    /\ id \in Ids(people)
    /\ profileFields' = SelectSeq(WithIds(fieldDefs), LAMBDA f : VisibleTo(userRole, f))
    /\ profile' = [personId |-> id, notes |-> PersonNotes(id),
                   householdMembers |->
                       IF people[id].householdId # NoId
                       THEN ProfileHouseholdMembers(people[id].householdId)
                       ELSE profile.householdMembers]
    /\ UNCHANGED <<people, tags, households, members, tagsPage, tagOp, detail, memberOp, message>>
    /\ UNCHANGED <<fieldDefs, fieldsPage, fieldOp, formFields, listFields, userRole>>
    /\ UNCHANGED <<notes, dashboard, householdList>>

NoteVisibilities == {"staff_only", "org"}

\* PersonProfile.handleAddNote; the Add Note tab is not rendered when
\* isReadOnly.  createdAt is set by the store, later for a later note.
NewNote(personId, visibility) ==
    [personId |-> personId, visibility |-> visibility, createdAt |-> Len(notes) + 1]

PersonProfileAddNote(id, visibility, outcome) ==
    /\ userRole # "viewer"
    /\ id \in Ids(people)
    /\ Len(notes) < MaxNotes
    /\ notes' = IF outcome = "ok" THEN EntityCreate(notes, NewNote(id, visibility)) ELSE notes
    /\ profile' = IF outcome = "ok"
                  THEN [profile EXCEPT !.notes = <<WithIds(notes')[Len(notes')]>> \o @]
                  ELSE profile
    /\ message' = IF outcome = "ok" THEN "success" ELSE "error"
    /\ UNCHANGED <<people, tags, households, members, tagsPage, tagOp, detail, memberOp>>
    /\ UNCHANGED fieldVars
    /\ UNCHANGED <<dashboard, householdList>>

\* ================================================================ Dashboard
Min(a, b) == IF a < b THEN a ELSE b

\* the orders in which Tag.list() may return n tags: every rotation of the
\* creation order, and the reverse of it
ListOrders(n) ==
    {[i \in 1..n |-> ((i + k - 1) % n) + 1] : k \in 0..(n - 1)}
        \cup {[i \in 1..n |-> n + 1 - i]}

\* people.filter(p => p.tagIds.includes(tag._id)).length
TagCount(t) == Cardinality({p \in Ids(people) : t \in people[p].tagIds})

\* Array.prototype.sort((a, b) => b.count - a.count): stable
RECURSIVE InsertByCountDesc(_, _)
InsertByCountDesc(t, s) ==
    IF s = <<>> THEN <<t>>
    ELSE IF t.count > Head(s).count THEN <<t>> \o s
    ELSE <<Head(s)>> \o InsertByCountDesc(t, Tail(s))

RECURSIVE SortedByCountDesc(_)
SortedByCountDesc(s) ==
    IF s = <<>> THEN <<>>
    ELSE InsertByCountDesc(s[Len(s)], SortedByCountDesc(SubSeq(s, 1, Len(s) - 1)))

\* stats.topTags for the tags listed in the given order
TopTags(order) ==
    LET counted == [i \in 1..Len(order) |-> [_id |-> order[i], count |-> TagCount(order[i])]]
        sorted == SortedByCountDesc(counted)
    IN  SubSeq(sorted, 1, Min(TopTagsShown, Len(sorted)))

\* Dashboard.loadDashboardData, Tag.list() answering in the given order
DashboardLoadData(order) ==
    /\ order \in ListOrders(Cardinality(DOMAIN tags))
    /\ dashboard' = [topTags |-> TopTags(order),
                     recentNotes |-> SubSeq(WithIds(notes), 1, Min(RecentNotesShown, Len(notes)))]
    /\ UNCHANGED <<people, tags, households, members, tagsPage, tagOp, detail, memberOp, message>>
    /\ UNCHANGED fieldVars
    /\ UNCHANGED <<notes, profile, householdList>>

\* ======================================================= HouseholdList load
\* HouseholdList.loadData: memberCount counts the rows of the household
HouseholdListLoadData ==
    /\ householdList' = [h \in Households |->
                            Cardinality({m \in Ids(members) : members[m].householdId = h})]
    /\ UNCHANGED <<people, tags, households, members, tagsPage, tagOp, detail, memberOp, message>>
    /\ UNCHANGED fieldVars
    /\ UNCHANGED <<notes, profile, dashboard>>

\* ========================================================= specifications
\* the tag subsystem, one operation at a time
FormSavesTags ==
    \E isEdit \in BOOLEAN, id \in 1..MaxPeople, tagIds \in SUBSET Tags, outcome \in Outcomes :
        \E values \in FormInputs : PersonFormSubmit(isEdit, id, tagIds, NoId, values, outcome)

NextTag ==
    \/ Quiescent /\ TagsLoadData
    \/ \E t \in Tags : DeleteTagStart(t)
    \/ \E outcome \in Outcomes : DeleteTagPersonUpdate(outcome)
    \/ \E outcome \in Outcomes : DeleteTagArchive(outcome)
    \/ Quiescent /\ FormSavesTags

SpecTag == Init /\ [][NextTag]_vars

\* the tag subsystem with the page loads and the person form free to run
\* between the store calls of a deleteTag in flight
FormEditsTags ==
    \E id \in 1..MaxPeople, tagIds \in SUBSET Tags, outcome \in Outcomes :
        \E values \in FormInputs : PersonFormSubmit(TRUE, id, tagIds, NoId, values, outcome)

NextTagConc ==
    \/ TagsLoadData
    \/ \E t \in Tags : DeleteTagStart(t)
    \/ \E outcome \in Outcomes : DeleteTagPersonUpdate(outcome)
    \/ \E outcome \in Outcomes : DeleteTagArchive(outcome)
    \/ FormEditsTags

SpecTagConc == Init /\ [][NextTagConc]_vars

\* the tag subsystem with the Tags page free to run loadData between the
\* store calls of a deleteTag in flight (writes one operation at a time)
NextTagRead ==
    \/ TagsLoadData
    \/ \E t \in Tags : DeleteTagStart(t)
    \/ \E outcome \in Outcomes : DeleteTagPersonUpdate(outcome)
    \/ \E outcome \in Outcomes : DeleteTagArchive(outcome)
    \/ Quiescent /\ FormSavesTags

SpecTagRead == Init /\ [][NextTagRead]_vars

\* the household subsystem, one operation at a time: the two household
\* pages, the household list and the person form editing householdId
FormSavesHousehold ==
    \E id \in 1..MaxPeople, householdId \in Households \cup {NoId}, outcome \in Outcomes :
        \E values \in FormInputs : PersonFormSubmit(TRUE, id, {}, householdId, values, outcome)

MemberAddEdit ==
    \E id \in Households, personId \in 1..MaxPeople, outcome \in Outcomes :
        \E editingMember \in {NoId} \cup SnapshotRows(id) :
            MemberSubmit(id, editingMember, personId, "head", outcome)

NextHouse ==
    \/ Quiescent /\ \E id \in Households : DetailLoadData(id)
    \/ MemberAddEdit
    \/ \E id \in Households, outcome \in Outcomes :
         \E member \in detail[id].members : MemberRemove(id, member, outcome)
    \/ \E outcome \in Outcomes : MemberPersonUpdate(outcome)
    \/ Quiescent /\ \E id \in Households, outcome \in Outcomes : HouseholdDelete(id, outcome)
    \/ Quiescent /\ FormSavesHousehold

SpecHouse == Init /\ [][NextHouse]_vars

\* the ProfileFields page alone, in one tab: create, edit and archive
\* fields.  The keys typed into the form: two that pass the key rule, two
\* that do not; the options list is shown for the select type only
KeyInputs == {<<"a">>, <<"b", "1">>, <<"1", "a">>, <<>>}

DefineInputs ==
    {values \in [key : KeyInputs, type : {"text", "select"},
                 options : SUBSET {"M"}, visibility : {"public"}] :
        values.type = "text" => values.options = {}}

NextDefine ==
    \/ FieldsLoadData(1)
    \/ \E editingField \in 0..MaxFields, values \in DefineInputs, outcome \in Outcomes :
         FieldCreateEdit(1, editingField, values, outcome)
    \/ \E field \in 1..MaxFields, outcome \in Outcomes : FieldDelete(1, field, outcome)

SpecDefine == Init /\ [][NextDefine]_vars

\* a field as the field form stores it
NewField(key, type, options, visibility, orderIndex) ==
    [key |-> key, type |-> type, options |-> options, visibility |-> visibility,
     archived |-> FALSE, orderIndex |-> orderIndex]

\* the ProfileFields page open in two tabs over an organization that has
\* two text fields already: archive and drag, one handler at a time
InitReorder ==
    /\ people = <<NewPerson({}, NoId, NoFields)>>
    /\ tags = [t \in Tags |-> [archived |-> FALSE]]
    /\ households = [h \in Households |-> [archived |-> FALSE]]
    /\ members = <<>>
    /\ tagsPage = [loaded |-> FALSE, people |-> <<>>]
    /\ tagOp = IdleTagOp
    /\ detail = [h \in Households |-> [loaded |-> FALSE, allPeople |-> <<>>, members |-> {}]]
    /\ memberOp = IdleMemberOp
    /\ message = "none"
    /\ fieldDefs = <<NewField(<<"a">>, "text", {}, "public", 0),
                     NewField(<<"b", "1">>, "text", {}, "public", 1)>>
    /\ fieldsPage = [tab \in FieldTabs |-> <<>>]
    /\ fieldOp = IdleFieldOp
    /\ formFields = <<>>
    /\ listFields = <<>>
    /\ profileFields = <<>>
    /\ userRole = "admin"
    /\ notes = <<>>
    /\ profile = [personId |-> NoId, notes |-> <<>>, householdMembers |-> {}]
    /\ dashboard = [topTags |-> <<>>, recentNotes |-> <<>>]
    /\ householdList = [h \in Households |-> 0]

NextReorder ==
    \/ Quiescent /\ \E tab \in FieldTabs : FieldsLoadData(tab)
    \/ Quiescent /\ \E tab \in FieldTabs, field \in 1..MaxFields, outcome \in Outcomes :
         FieldDelete(tab, field, outcome)
    \/ \E tab \in FieldTabs, oldIndex, newIndex \in 1..MaxFields :
         FieldDragStart(tab, oldIndex, newIndex)
    \/ \E outcome \in Outcomes : FieldDragUpdate(outcome)

SpecReorder == InitReorder /\ [][NextReorder]_vars

\* the person form over an organization that has one select field (shirt
\* size, options M and XL) while the ProfileFields page edits its options
\* or archives it
InitPersonFields ==
    /\ people = <<NewPerson({}, NoId, NoFields)>>
    /\ tags = [t \in Tags |-> [archived |-> FALSE]]
    /\ households = [h \in Households |-> [archived |-> FALSE]]
    /\ members = <<>>
    /\ tagsPage = [loaded |-> FALSE, people |-> <<>>]
    /\ tagOp = IdleTagOp
    /\ detail = [h \in Households |-> [loaded |-> FALSE, allPeople |-> <<>>, members |-> {}]]
    /\ memberOp = IdleMemberOp
    /\ message = "none"
    /\ fieldDefs = <<NewField(<<"a">>, "select", {"M", "XL"}, "public", 0)>>
    /\ fieldsPage = [tab \in FieldTabs |-> <<>>]
    /\ fieldOp = IdleFieldOp
    /\ formFields = <<>>
    /\ listFields = <<>>
    /\ profileFields = <<>>
    /\ userRole = "admin"
    /\ notes = <<>>
    /\ profile = [personId |-> NoId, notes |-> <<>>, householdMembers |-> {}]
    /\ dashboard = [topTags |-> <<>>, recentNotes |-> <<>>]
    /\ householdList = [h \in Households |-> 0]

\* the edits of the field: its options
EditInputs ==
    [key : {<<"a">>}, type : {"select"}, options : {{"M"}, {"M", "XL"}},
     visibility : {"public"}]

NextPersonFields ==
    \/ FieldsLoadData(1)
    \/ \E values \in EditInputs, outcome \in Outcomes : FieldCreateEdit(1, 1, values, outcome)
    \/ \E outcome \in Outcomes : FieldDelete(1, 1, outcome)
    \/ PersonFormLoadData
    \/ \E isEdit \in BOOLEAN, id \in 1..MaxPeople, outcome \in Outcomes :
         \E values \in FormInputs : PersonFormSubmit(isEdit, id, {}, NoId, values, outcome)

SpecPersonFields == InitPersonFields /\ [][NextPersonFields]_vars

\* the three views of the profile fields, for every role, over an
\* organization that has two text fields a and b1 (each public or
\* staff_only, archived or not, in either order) and one person holding a
\* value under both
ViewDefs ==
    {<<[NewField(<<"a">>, "text", {}, va, oa) EXCEPT !.archived = aa],
       [NewField(<<"b", "1">>, "text", {}, vb, 1 - oa) EXCEPT !.archived = ab]>> :
        va \in Visibilities, vb \in Visibilities, aa \in BOOLEAN, ab \in BOOLEAN,
        oa \in 0..(MaxFields - 1)}

InitViews ==
    /\ people = <<NewPerson({}, NoId, [k \in {<<"a">>, <<"b", "1">>} |-> Val("string", "M")])>>
    /\ tags = [t \in Tags |-> [archived |-> FALSE]]
    /\ households = [h \in Households |-> [archived |-> FALSE]]
    /\ members = <<>>
    /\ tagsPage = [loaded |-> FALSE, people |-> <<>>]
    /\ tagOp = IdleTagOp
    /\ detail = [h \in Households |-> [loaded |-> FALSE, allPeople |-> <<>>, members |-> {}]]
    /\ memberOp = IdleMemberOp
    /\ message = "none"
    /\ fieldDefs \in ViewDefs
    /\ fieldsPage = [tab \in FieldTabs |-> <<>>]
    /\ fieldOp = IdleFieldOp
    /\ formFields = <<>>
    /\ listFields = <<>>
    /\ profileFields = <<>>
    /\ userRole \in Roles
    /\ notes = <<>>
    /\ profile = [personId |-> NoId, notes |-> <<>>, householdMembers |-> {}]
    /\ dashboard = [topTags |-> <<>>, recentNotes |-> <<>>]
    /\ householdList = [h \in Households |-> 0]

NextViews ==
    \/ PeopleListLoadData
    \/ PersonFormLoadData
    \/ \E id \in 1..MaxPeople : PersonProfileLoadData(id)

SpecViews == InitViews /\ [][NextViews]_vars

\* the note lists of the person profile and the dashboard, for every role,
\* over an organization whose one person has up to MaxNotes notes
NoteLists ==
    UNION {[1..n -> NoteVisibilities] : n \in 0..MaxNotes}

InitNotes ==
    /\ people = <<NewPerson({}, NoId, NoFields)>>
    /\ tags = [t \in Tags |-> [archived |-> FALSE]]
    /\ households = [h \in Households |-> [archived |-> FALSE]]
    /\ members = <<>>
    /\ tagsPage = [loaded |-> FALSE, people |-> <<>>]
    /\ tagOp = IdleTagOp
    /\ detail = [h \in Households |-> [loaded |-> FALSE, allPeople |-> <<>>, members |-> {}]]
    /\ memberOp = IdleMemberOp
    /\ message = "none"
    /\ fieldDefs = <<>>
    /\ fieldsPage = [tab \in FieldTabs |-> <<>>]
    /\ fieldOp = IdleFieldOp
    /\ formFields = <<>>
    /\ listFields = <<>>
    /\ profileFields = <<>>
    /\ userRole \in Roles
    /\ \E list \in NoteLists :
         notes = [i \in 1..Len(list) |->
                    [personId |-> 1, visibility |-> list[i], createdAt |-> i]]
    /\ profile = [personId |-> NoId, notes |-> <<>>, householdMembers |-> {}]
    /\ dashboard = [topTags |-> <<>>, recentNotes |-> <<>>]
    /\ householdList = [h \in Households |-> 0]

NextNotes ==
    \/ \E id \in 1..MaxPeople : PersonProfileLoadData(id)
    \/ \E id \in 1..MaxPeople, visibility \in NoteVisibilities, outcome \in Outcomes :
         PersonProfileAddNote(id, visibility, outcome)
    \/ \E order \in ListOrders(NumTags) : DashboardLoadData(order)

SpecNotes == InitNotes /\ [][NextNotes]_vars

\* the dashboard over an organization with NumDashTags tags, numbered in
\* creation order, and one person holding any of them
DashTags == 1..NumDashTags

InitDash ==
    /\ \E tagIds \in SUBSET DashTags : people = <<NewPerson(tagIds, NoId, NoFields)>>
    /\ tags = [t \in DashTags |-> [archived |-> FALSE, createdAt |-> t]]
    /\ households = [h \in Households |-> [archived |-> FALSE]]
    /\ members = <<>>
    /\ tagsPage = [loaded |-> FALSE, people |-> <<>>]
    /\ tagOp = IdleTagOp
    /\ detail = [h \in Households |-> [loaded |-> FALSE, allPeople |-> <<>>, members |-> {}]]
    /\ memberOp = IdleMemberOp
    /\ message = "none"
    /\ fieldDefs = <<>>
    /\ fieldsPage = [tab \in FieldTabs |-> <<>>]
    /\ fieldOp = IdleFieldOp
    /\ formFields = <<>>
    /\ listFields = <<>>
    /\ profileFields = <<>>
    /\ userRole = "admin"
    /\ notes = <<>>
    /\ profile = [personId |-> NoId, notes |-> <<>>, householdMembers |-> {}]
    /\ dashboard = [topTags |-> <<>>, recentNotes |-> <<>>]
    /\ householdList = [h \in Households |-> 0]

NextDash == \E order \in ListOrders(NumDashTags) : DashboardLoadData(order)

SpecDash == InitDash /\ [][NextDash]_vars

\* the household rosters as views of the store: HouseholdDetail.loadData and
\* PersonProfile.loadData over every content of the HouseholdMember
\* collection within the bounds.  The backend keeps no foreign keys, so a
\* row's personId may name no person (MaxPeople + 1 here).  The first person
\* has any household or none, the others have none.
RosterRows == {NewMember(h, p, "head") : h \in Households, p \in 1..(MaxPeople + 1)}

RosterMembers == UNION {[1..n -> RosterRows] : n \in 0..MaxMembers}

RosterPeople ==
    {[p \in 1..MaxPeople |-> NewPerson({}, IF p = 1 THEN h ELSE NoId, NoFields)] :
        h \in Households \cup {NoId}}

InitRoster ==
    /\ people \in RosterPeople
    /\ members \in RosterMembers
    /\ tags = [t \in Tags |-> [archived |-> FALSE]]
    /\ households = [h \in Households |-> [archived |-> FALSE]]
    /\ tagsPage = [loaded |-> FALSE, people |-> <<>>]
    /\ tagOp = IdleTagOp
    /\ detail = [h \in Households |-> [loaded |-> FALSE, allPeople |-> <<>>, members |-> {}]]
    /\ memberOp = IdleMemberOp
    /\ message = "none"
    /\ fieldDefs = <<>>
    /\ fieldsPage = [tab \in FieldTabs |-> <<>>]
    /\ fieldOp = IdleFieldOp
    /\ formFields = <<>>
    /\ listFields = <<>>
    /\ profileFields = <<>>
    /\ userRole = "admin"
    /\ notes = <<>>
    /\ profile = [personId |-> NoId, notes |-> <<>>, householdMembers |-> {}]
    /\ dashboard = [topTags |-> <<>>, recentNotes |-> <<>>]
    /\ householdList = [h \in Households |-> 0]

NextRoster ==
    \/ \E id \in Households : DetailLoadData(id)
    \/ \E id \in 1..MaxPeople : PersonProfileLoadData(id)

SpecRoster == InitRoster /\ [][NextRoster]_vars

\* the household pages over two people who start in no household: member
\* add, edit and remove on the detail pages, and the reads of the detail
\* page and the household list between them
InitMembers ==
    /\ people = [p \in 1..MaxPeople |-> NewPerson({}, NoId, NoFields)]
    /\ tags = [t \in Tags |-> [archived |-> FALSE]]
    /\ households = [h \in Households |-> [archived |-> FALSE]]
    /\ members = <<>>
    /\ tagsPage = [loaded |-> FALSE, people |-> <<>>]
    /\ tagOp = IdleTagOp
    /\ detail = [h \in Households |-> [loaded |-> FALSE, allPeople |-> <<>>, members |-> {}]]
    /\ memberOp = IdleMemberOp
    /\ message = "none"
    /\ fieldDefs = <<>>
    /\ fieldsPage = [tab \in FieldTabs |-> <<>>]
    /\ fieldOp = IdleFieldOp
    /\ formFields = <<>>
    /\ listFields = <<>>
    /\ profileFields = <<>>
    /\ userRole = "admin"
    /\ notes = <<>>
    /\ profile = [personId |-> NoId, notes |-> <<>>, householdMembers |-> {}]
    /\ dashboard = [topTags |-> <<>>, recentNotes |-> <<>>]
    /\ householdList = [h \in Households |-> 0]

NextMembers ==
    \/ Quiescent /\ \E id \in Households : DetailLoadData(id)
    \/ MemberAddEdit
    \/ \E id \in Households, outcome \in Outcomes :
         \E member \in detail[id].members : MemberRemove(id, member, outcome)
    \/ \E outcome \in Outcomes : MemberPersonUpdate(outcome)
    \/ Quiescent /\ HouseholdListLoadData

SpecMembers == InitMembers /\ [][NextMembers]_vars

\* the ProfileFields page in one tab, for every role, over an organization
\* that has two text fields
InitFieldRoles ==
    /\ people = <<NewPerson({}, NoId, NoFields)>>
    /\ tags = [t \in Tags |-> [archived |-> FALSE]]
    /\ households = [h \in Households |-> [archived |-> FALSE]]
    /\ members = <<>>
    /\ tagsPage = [loaded |-> FALSE, people |-> <<>>]
    /\ tagOp = IdleTagOp
    /\ detail = [h \in Households |-> [loaded |-> FALSE, allPeople |-> <<>>, members |-> {}]]
    /\ memberOp = IdleMemberOp
    /\ message = "none"
    /\ fieldDefs = <<NewField(<<"a">>, "text", {}, "public", 0),
                     NewField(<<"b", "1">>, "text", {}, "public", 1)>>
    /\ fieldsPage = [tab \in FieldTabs |-> <<>>]
    /\ fieldOp = IdleFieldOp
    /\ formFields = <<>>
    /\ listFields = <<>>
    /\ profileFields = <<>>
    /\ userRole \in Roles
    /\ notes = <<>>
    /\ profile = [personId |-> NoId, notes |-> <<>>, householdMembers |-> {}]
    /\ dashboard = [topTags |-> <<>>, recentNotes |-> <<>>]
    /\ householdList = [h \in Households |-> 0]

\* the edits of a field: its visibility
RoleEditInputs ==
    [key : {<<"a">>}, type : {"text"}, options : {{}}, visibility : Visibilities]

NextFieldRoles ==
    \/ Quiescent /\ FieldsLoadData(1)
    \/ Quiescent /\ \E editingField \in 1..MaxFields, values \in RoleEditInputs,
                       outcome \in Outcomes :
         FieldCreateEdit(1, editingField, values, outcome)
    \/ Quiescent /\ \E field \in 1..MaxFields, outcome \in Outcomes :
         FieldDelete(1, field, outcome)
    \/ \E oldIndex, newIndex \in 1..MaxFields : FieldDragStart(1, oldIndex, newIndex)
    \/ \E outcome \in Outcomes : FieldDragUpdate(outcome)

SpecFieldRoles == InitFieldRoles /\ [][NextFieldRoles]_vars

\* ================================================================= claims
TagOpCompletes == tagOp.pc # "idle" /\ tagOp'.pc = "idle"
MemberOpCompletes == memberOp.pc = "person" /\ memberOp'.pc = "idle"

\* the active member rows of person p in the collection rows
ActiveRowsOf(rows, p) ==
    {m \in Ids(rows) : ~rows[m].archived /\ rows[m].personId = p}

\* Person.householdId and the active member rows of p agree: unset with no
\* active row, or set with exactly one active row, of that household
MembershipAgrees(ppl, rows, p) ==
    IF ppl[p].householdId = NoId
    THEN ActiveRowsOf(rows, p) = {}
    ELSE /\ Cardinality(ActiveRowsOf(rows, p)) = 1
         /\ \A m \in ActiveRowsOf(rows, p) : rows[m].householdId = ppl[p].householdId

\* C1: whenever no operation is in flight, every id stored in a relationship
\* field (Person.tagIds, Person.householdId, and householdId and personId of
\* every active HouseholdMember row) resolves to a live, non-archived entity
\* or is unset.
C1_NoDanglingReference ==
    Quiescent =>
        /\ \A p \in Ids(people) :
            /\ \A t \in people[p].tagIds : t \in Tags /\ ~tags[t].archived
            /\ people[p].householdId # NoId =>
                /\ people[p].householdId \in Households
                /\ ~households[people[p].householdId].archived
        /\ \A m \in ActiveRows :
            /\ members[m].householdId \in Households
            /\ ~households[members[m].householdId].archived
            /\ members[m].personId \in Ids(people)

\* C2: whenever no operation is in flight, every person's householdId is H
\* exactly when one active member row (H, person) exists, and a person has at
\* most one active member row.
C2_HouseholdIdAgreesWithMemberRow ==
    Quiescent => \A p \in Ids(people) : MembershipAgrees(people, members, p)

\* C3: a deleteTag whose store calls all succeed reports success and leaves
\* no person holding the tag, whatever was saved between the page's load and
\* the call.
C3_ArchiveStripsTagFromEveryone ==
    [][(/\ TagOpCompletes
        /\ ~tagOp.failed
        /\ message' # "error"
        /\ tags'[tagOp.tag].archived)
       => /\ message' = "success"
          /\ \A p \in Ids(people') : tagOp.tag \notin people'[p].tagIds]_vars

\* C4: a deleteTag called on a tag that is already archived, and whose store
\* calls all succeed, reports success and leaves every Person.tagIds and
\* every tag as they were when it was called.
C4_SecondArchiveIsNoOp ==
    [][(/\ TagOpCompletes
        /\ tagOp.pre.tags[tagOp.tag].archived
        /\ ~tagOp.failed
        /\ message' # "error")
       => /\ message' = "success"
          /\ people' = tagOp.pre.people
          /\ tags' = tagOp.pre.tags]_vars

\* C5: no HouseholdMember row is created for a person who is a member of a
\* different household (Person.householdId set to it, with an active member
\* row there): the add changes neither the rows nor Person.householdId and
\* reports an error.
BelongsElsewhere(p, id) ==
    /\ p \in Ids(people)
    /\ people[p].householdId \notin {NoId, id}
    /\ \E m \in ActiveRows :
        members[m].personId = p /\ members[m].householdId = people[p].householdId

C5_AddToSecondHouseholdRejected ==
    [][\A id \in Households, p \in 1..MaxPeople :
        (/\ detail[id].loaded
         /\ memberOp.pc = "idle"
         /\ BelongsElsewhere(p, id)
         /\ Len(members') = Len(members) + 1
         /\ members'[Len(members')].personId = p
         /\ members'[Len(members')].householdId = id)
        => FALSE]_vars

\* C6: when a member add ends, the row (H, P, R) it created is in the store
\* exactly if P.householdId = H, and if it reports success both hold.
AddedRowStands(rows, op) ==
    /\ op.row \in Ids(rows)
    /\ rows[op.row] = NewMember(op.id, op.personId, op.relationship)

C6_AddIsAtomic ==
    [][(MemberOpCompletes /\ memberOp.kind = "add")
       => /\ AddedRowStands(members', memberOp) <=> people'[memberOp.personId].householdId = memberOp.id
          /\ message' = "success" =>
                /\ AddedRowStands(members', memberOp)
                /\ people'[memberOp.personId].householdId = memberOp.id]_vars

\* C7: a member remove that starts with the person's householdId and member
\* rows in agreement ends with them in agreement, whichever of its two
\* writes fails.
C7_RemoveIsOneTransaction ==
    [][(/\ MemberOpCompletes
        /\ memberOp.kind = "remove"
        /\ MembershipAgrees(memberOp.pre.people, memberOp.pre.members, memberOp.personId))
       => MembershipAgrees(people', members', memberOp.personId)]_vars

\* C8: a household is archived only in a step at which no active member
\* row names it: a delete of a household with active members changes nothing
\* (the handler takes no cascade flag), so no archived household is named by
\* an active member row.
C8_DeleteWithMembersRejected ==
    [][\A id \in Households :
        (~households[id].archived /\ households'[id].archived)
        => \A m \in ActiveRows : members[m].householdId # id]_vars

\* C9: a deleteTag in which a store call failed ends with every Person and
\* every Tag as they were when it began.
C9_FailedCascadeRolledBack ==
    [][(TagOpCompletes /\ (tagOp.failed \/ message' = "error"))
       => /\ people' = tagOp.pre.people
          /\ tags' = tagOp.pre.tags]_vars

\* C10: with person saves free to run between the store calls of deleteTag,
\* a deleteTag that began on a snapshot equal to the store and whose store
\* calls all succeed ends with no person holding the tag it archived.
C10_NoDanglingTagUnderInterleaving ==
    [][(/\ TagOpCompletes
        /\ tagOp.fresh
        /\ ~tagOp.failed
        /\ message' # "error"
        /\ ~tagOp.pre.tags[tagOp.tag].archived
        /\ tags'[tagOp.tag].archived)
       => \A p \in Ids(people') : tagOp.tag \notin people'[p].tagIds]_vars

\* the people list with tag t taken out of every tagIds
Stripped(ppl, t) ==
    [i \in Ids(ppl) |-> [ppl[i] EXCEPT !.tagIds = ppl[i].tagIds \ {t}]]

\* C11: a loadData that runs while a deleteTag is in flight (one that began
\* on a snapshot equal to the store) reads either the people and tags as
\* they were when the cascade began, or the people all stripped of the tag
\* and the tag archived.
C11_ReadSeesPreOrPostState ==
    [][(/\ tagOp.pc # "idle"
        /\ tagOp' = tagOp
        /\ tagOp.fresh
        /\ tagsPage' # tagsPage)
       => \/ /\ tagsPage'.people = tagOp.pre.people
             /\ tags = tagOp.pre.tags
          \/ /\ tagsPage'.people = Stripped(tagOp.pre.people, tagOp.tag)
             /\ tags[tagOp.tag].archived]_vars

\* C14: every person write of the form leaves the person with tagIds that
\* name only existing, non-archived tags (a save naming an archived tag
\* writes nothing).
C14_ArchivedTagNeverAccepted ==
    [][(Quiescent /\ people' # people)
       => \A p \in Ids(people') :
            (p \notin Ids(people) \/ people'[p] # people[p])
            => \A t \in people'[p].tagIds : t \in Tags /\ ~tags[t].archived]_vars

\* the types whose fields need options
NeedsOptions(type) == type \in {"select", "multiselect"}

\* C15: a field is created only if its key is a valid identifier, no
\* existing non-archived field has the same key, and it has options when
\* its type is select or multiselect.
C15_DefineFieldValidates ==
    [][Len(fieldDefs') > Len(fieldDefs)
       => LET def == fieldDefs'[Len(fieldDefs')]
          IN  /\ ValidKey(def.key)
              /\ \A i \in Ids(fieldDefs) :
                   ~fieldDefs[i].archived => fieldDefs[i].key # def.key
              /\ NeedsOptions(def.type) => def.options # {}]_vars

\* C16: after every field operation the keys of all fields, archived ones
\* included, are pairwise distinct, and no existing field has changed its
\* key.
C16_KeysUniqueAndImmutable ==
    [][/\ \A i, j \in Ids(fieldDefs') :
            i # j => fieldDefs'[i].key # fieldDefs'[j].key
       /\ \A i \in Ids(fieldDefs) : fieldDefs'[i].key = fieldDefs[i].key]_vars

\* the ids of the non-archived fields of a collection
LiveFields(defs) == {i \in Ids(defs) : ~defs[i].archived}

\* the fields a drag was given are not the non-archived fields of the
\* collection as the drag began
KeySetMismatch(op) ==
    {op.newFields[j] : j \in 1..Len(op.newFields)} # LiveFields(op.pre)

\* C17: a reorder given exactly the current non-archived fields, every call
\* of which is applied, leaves them with orderIndex 0..n-1 in the given
\* order; a reorder given any other set of fields changes no orderIndex.
C17_ReorderDenseOrRejected ==
    [][fieldOp.pc = "reorder"
       => /\ KeySetMismatch(fieldOp)
             => \A i \in Ids(fieldDefs) : fieldDefs'[i].orderIndex = fieldDefs[i].orderIndex
          /\ (/\ ~KeySetMismatch(fieldOp)
              /\ ~fieldOp.failed
              /\ fieldOp'.pc = "idle"
              /\ message' = "success"
              /\ fieldDefs' = EntityUpdate(fieldDefs, fieldOp.newFields[fieldOp.i],
                                           [orderIndex |-> fieldOp.i - 1]))
             => \A j \in 1..Len(fieldOp.newFields) :
                  fieldDefs'[fieldOp.newFields[j]].orderIndex = j - 1]_vars

\* the people a step has written (created or changed)
Written(ppl, ppl2) ==
    {p \in Ids(ppl2) : p \notin Ids(ppl) \/ ppl2[p] # ppl[p]}

\* C12: every person write leaves the person with fields keys that all have
\* a non-archived field definition at the time of the write.
C12_WrittenKeysAreLive ==
    [][\A p \in Written(people, people') :
         \A k \in DOMAIN people'[p].fields :
            \E i \in Ids(fieldDefs) : fieldDefs[i].key = k /\ ~fieldDefs[i].archived]_vars

\* a value of the declared type of a field (spec 4.2)
MatchesType(def, v) ==
    CASE def.type = "select" -> v.t = "string" /\ v.s \in def.options
      [] def.type = "number" -> v.t = "number"
      [] def.type = "checkbox" -> v.t = "boolean"
      [] OTHER -> v.t = "string"

\* C13: every person write leaves each value of the person's fields of the
\* type its field declares at the time of the write: for a select field,
\* one of the field's options; for a number field, a number.
C13_WrittenValuesMatchType ==
    [][\A p \in Written(people, people') :
         \A k \in DOMAIN people'[p].fields :
            \A i \in Ids(fieldDefs) :
               (fieldDefs[i].key = k /\ ~fieldDefs[i].archived)
               => MatchesType(fieldDefs[i], people'[p].fields[k])]_vars

\* C18: a value stored under the key of an archived field stays as it is,
\* in the step that archives the field and in every later step, a save of
\* a person form that does not show the field included.
C18_ArchivedValuesPreserved ==
    [][\A p \in Ids(people) :
         \A k \in DOMAIN people[p].fields \ FormKeys :
            (\E i \in Ids(fieldDefs') : fieldDefs'[i].key = k /\ fieldDefs'[i].archived)
            => /\ k \in DOMAIN people'[p].fields
               /\ people'[p].fields[k] = people[p].fields[k]]_vars

\* visibleFieldsFor(role) of the schema registry (spec 4.1)
visibleFieldsFor(role) ==
    SortedByOrderIndex(SelectSeq(WithIds(fieldDefs), LAMBDA f : VisibleTo(role, f)))

\* C19: each consumer that loads its profile fields (people list, person
\* form, person profile) holds exactly visibleFieldsFor(userRole), in
\* ascending orderIndex order.
C19_ConsumersShowVisibleFieldsInOrder ==
    [][/\ listFields' # listFields => listFields' = visibleFieldsFor(userRole)
       /\ formFields' # formFields => formFields' = visibleFieldsFor(userRole)
       /\ profileFields' # profileFields
            => profileFields' = visibleFieldsFor(userRole)]_vars

\* a view lists a staff_only field under whose key some person has a value
ShowsStaffOnlyValue(view) ==
    \E i \in 1..Len(view), p \in Ids(people) :
        view[i].visibility = "staff_only" /\ view[i].key \in DOMAIN people[p].fields

\* C20: for role viewer no view (people list columns and column chooser,
\* person form, person profile) lists a staff_only field that a person has
\* a value for.
C20_ViewerNeverSeesStaffOnly ==
    userRole = "viewer"
    => /\ ~ShowsStaffOnlyValue(listFields)
       /\ ~ShowsStaffOnlyValue(formFields)
       /\ ~ShowsStaffOnlyValue(profileFields)

\* C23: once a store call of a multi-step operation has returned success =
\* false, the operation makes no further write and does not end with the
\* success toast.
C23_NoErrorSwallowed ==
    [][/\ (tagOp.pc # "idle" /\ tagOp.failed)
          => /\ people' = people /\ tags' = tags
             /\ message' # "success"
       /\ (memberOp.pc # "idle" /\ memberOp.failed)
          => /\ people' = people /\ members' = members
             /\ message' # "success"]_vars

\* C24: the step of a deleteTag that marks the tag archived finds no person
\* still holding the tag among those who held it when the operation began.
C24_StripBeforeArchive ==
    [][(/\ tagOp.pc # "idle"
        /\ ~tags[tagOp.tag].archived
        /\ tags'[tagOp.tag].archived)
       => \A p \in Ids(tagOp.pre.people) :
            tagOp.tag \in tagOp.pre.people[p].tagIds => tagOp.tag \notin people'[p].tagIds]_vars

\* C30: a write of deleteTag changes, on a person, only whether the person
\* holds the tag being archived: the other tag ids the person holds in the
\* store stay, and a person not holding the tag is left as it is.
C30_ArchiveTouchesOnlyItsTag ==
    [][tagOp.pc = "cascade"
       => \A p \in Ids(people) :
            /\ people'[p].tagIds \ {tagOp.tag} = people[p].tagIds \ {tagOp.tag}
            /\ tagOp.tag \notin people[p].tagIds => people'[p] = people[p]]_vars

\* a note list holds a staff_only note
HoldsStaffOnlyNote(list) ==
    \E i \in 1..Len(list) : list[i].visibility = "staff_only"

\* C21: for role viewer neither the notes of the person profile nor the
\* recent notes of the dashboard hold a staff_only note.
C21_ViewerNeverSeesStaffOnlyNote ==
    userRole = "viewer"
    => ~HoldsStaffOnlyNote(profile.notes) /\ ~HoldsStaffOnlyNote(dashboard.recentNotes)

\* tag u ranks above tag t: more people hold it, or as many and it was
\* created earlier
RanksAbove(u, t) ==
    \/ TagCount(u) > TagCount(t)
    \/ TagCount(u) = TagCount(t) /\ tags[u].createdAt < tags[t].createdAt

\* the tag at place i of that ranking
TagAtRank(i) ==
    CHOOSE t \in DOMAIN tags : Cardinality({u \in DOMAIN tags : RanksAbove(u, t)}) = i - 1

\* C22: the top tags the dashboard has loaded are the first five tags by
\* usage count descending, ties broken by earlier createdAt.
C22_TopTagsByCountThenCreatedAt ==
    dashboard.topTags # <<>>
    => /\ Len(dashboard.topTags) = Min(TopTagsShown, Cardinality(DOMAIN tags))
       /\ \A i \in 1..Len(dashboard.topTags) : dashboard.topTags[i]._id = TagAtRank(i)

\* the orderIndex values of the non-archived fields are 0..n-1, each once
DenseOrderIndex(defs) ==
    /\ \A i, j \in LiveFields(defs) : i # j => defs[i].orderIndex # defs[j].orderIndex
    /\ {defs[i].orderIndex : i \in LiveFields(defs)} = 0..(Cardinality(LiveFields(defs)) - 1)

\* C25: a field that is created gets orderIndex = the number of non-archived
\* fields there were, and after every field operation the orderIndex values
\* of the non-archived fields are distinct and dense, 0..n-1.
C25_OrderIndexDense ==
    [][/\ Len(fieldDefs') > Len(fieldDefs)
          => fieldDefs'[Len(fieldDefs')].orderIndex = Cardinality(LiveFields(fieldDefs))
       /\ DenseOrderIndex(fieldDefs')]_vars

\* C29: while the role is viewer or member no step changes a
\* ProfileFieldDef.
C29_ReadOnlyRolesChangeNoField ==
    [][(userRole = "viewer" \/ userRole = "member") => fieldDefs' = fieldDefs]_vars

\* the rows of household id in the store whose personId names a person
ResolvedRows(id) ==
    {m \in Ids(members) : members[m].householdId = id /\ members[m].personId \in Ids(people)}

\* roster holds one entry per resolved row of household id, each the row
\* joined with its person, and nothing else
IsRosterOf(roster, id) ==
    /\ {e._id : e \in roster} = ResolvedRows(id)
    /\ Cardinality(roster) = Cardinality(ResolvedRows(id))
    /\ \A e \in roster :
         /\ e.personId = members[e._id].personId
         /\ e.relationship = members[e._id].relationship
         /\ e.person = people[e.personId]

\* a row of household id whose personId names no person
DanglingRow(id) ==
    \E m \in Ids(members) : members[m].householdId = id /\ members[m].personId \notin Ids(people)

\* C26: the roster a household detail page loaded, and the household card a
\* person profile loaded for a person who has a household, hold exactly the
\* member rows of that household whose personId names a person, each joined
\* with that person; a row whose personId names no person is left out and
\* the page loads all the same.
C26_RosterIsResolvedRows ==
    /\ \A id \in Households : detail[id].loaded => IsRosterOf(detail[id].members, id)
    /\ (profile.personId # NoId /\ people[profile.personId].householdId # NoId)
       => IsRosterOf(profile.householdMembers, people[profile.personId].householdId)

\* both pages have loaded the roster of one household that has a row with a
\* person and a row without
C26_Witness ==
    \E id \in Households :
        /\ detail[id].loaded
        /\ profile.personId # NoId
        /\ people[profile.personId].householdId = id
        /\ DanglingRow(id)
        /\ detail[id].members # {}
        /\ profile.householdMembers # {}

\* person p was removed from household h and is in no household: a row of
\* (h, p) carries the archived mark of a remove, no row of p is active and
\* p's householdId is unset
RemovedFrom(ppl, rows, p, h) ==
    /\ ppl[p].householdId = NoId
    /\ ActiveRowsOf(rows, p) = {}
    /\ \E m \in Ids(rows) : rows[m].householdId = h /\ rows[m].personId = p /\ rows[m].archived

\* the options of the add-member select over a snapshot of the detail page
OfferedToAdd(snapshot) ==
    {p \in Ids(snapshot.allPeople) : snapshot.allPeople[p].householdId = NoId}

\* C27: once person P has been removed from household H, a load of the
\* detail page of H gives a roster without P and offers P in the add-member
\* select, and a load of the household list gives H a member count that
\* does not count P's rows.
C27_RemovedMemberGoneFromReads ==
    [][\A h \in Households, p \in Ids(people) :
        (memberOp'.pc = "idle" /\ RemovedFrom(people', members', p, h))
        => /\ (detail'[h] # detail[h] /\ detail'[h].loaded)
              => /\ \A e \in detail'[h].members : e.personId # p
                 /\ p \in OfferedToAdd(detail'[h])
           /\ householdList' # householdList
              => householdList'[h] <=
                    Cardinality({m \in Ids(members') :
                        members'[m].householdId = h /\ members'[m].personId # p})]_vars

\* C28: an edit of a member row writes nothing to the row but its
\* relationship, and when the edit ends no person is left with the
\* household's id and no active row, and no person has two active rows.
C28_EditChangesOnlyRelationship ==
    [][/\ (memberOp.pc = "idle" /\ memberOp'.pc = "person" /\ memberOp'.kind = "edit")
          => \A m \in Ids(members) :
                [members'[m] EXCEPT !.relationship = members[m].relationship] = members[m]
       /\ (MemberOpCompletes /\ memberOp.kind = "edit")
          => \A p \in Ids(people') :
                /\ ~(people'[p].householdId = memberOp.id /\ ActiveRowsOf(members', p) = {})
                /\ Cardinality(ActiveRowsOf(members', p)) <= 1]_vars

====
